---- MODULE Spec2Model ----
(***************************************************************************)
(* Model of gocqlx's Iterx (src/iterx.go): a wrapper around a gocql paging *)
(* cursor that scans rows into structs (StructScan), a single destination  *)
(* (Get) or a slice (Select).                                               *)
(*                                                                         *)
(* One binder over one cursor is modelled.  The state is the Iterx value,  *)
(* the underlying cursor, instrumentation counters, and a record of the    *)
(* last call made by the caller (its input, its result and the state it    *)
(* started from).  Every exported method is an operator over a machine     *)
(* record m = [it, cur, st] and an action that applies it.  DefaultUnsafe  *)
(* is the package variable of that name, and `made` records the value it   *)
(* had when the binder was constructed.                                    *)
(*                                                                         *)
(* A second specification, SpecConc, drives one binder from two threads,   *)
(* each inside one StructScan call taken statement by statement; `thr` is  *)
(* the position and the result of each thread and `heap` the object each   *)
(* thread passes.                                                          *)
(***************************************************************************)
EXTENDS Integers, Sequences, FiniteSets, TLC

VARIABLES iter, cur, stats, last, nOps, DefaultUnsafe, made, thr, heap

vars == <<iter, cur, stats, last, nOps, DefaultUnsafe, made, thr, heap>>

(***************************************************************************)
(* Bounds of the model.                                                    *)
(***************************************************************************)
\* longest column list of a result
MaxCols == 2
\* most rows a cursor yields
MaxRows == 2
\* most calls made on one binder
MaxOps == 2

(***************************************************************************)
(* Destination types.  Person is a plain struct with two mapped fields,    *)
(* FullName a struct with the same fields whose pointer implements         *)
(* gocql.Unmarshaler, Empty a struct without exported fields and Int a     *)
(* non-struct type.                                                        *)
(***************************************************************************)
Types == {"Person", "FullName", "Empty", "Int"}

\* reflect.Type.Kind()
Kind(t) == IF t = "Int" THEN "int" ELSE "struct"

\* reflect.PtrTo(t).Implements(unmarshallerInterface) || ...(udtUnmarshallerInterface)
Implements(t) == t = "FullName"

\* Mapper.TypeMap(t).Index: the mapped (exported) fields of t, by column name
Index(t) == IF t \in {"Person", "FullName"} THEN {"a", "b"} ELSE {}

\* the %T of a pointer to t
PtrTo(t) == "*" \o t

\* Column names a result can carry; no destination type has a field for "x".
ColumnNames == {"a", "b", "x"}

Range(s) == {s[i] : i \in 1..Len(s)}

\* column lists without repeated names, up to MaxCols long
ColumnLists ==
    {s \in UNION {[1..n -> ColumnNames] : n \in 0..MaxCols} :
        Cardinality(Range(s)) = Len(s)}

(***************************************************************************)
(* Values.  The cell of row r in the column named c is <<r, c>>, so every  *)
(* cell of a result is distinct; Zero is the zero value of a field.        *)
(* An object of type t holds one cell per mapped field, and under "self"   *)
(* the value written when the object is scanned as one opaque value.       *)
(***************************************************************************)
Cell(r, c) == <<r, c>>
Zero == <<0, "">>

Fields(t) == Index(t) \cup {"self"}

\* reflect.New(t): a zero-valued object
New(t) == [f \in Fields(t) |-> Zero]

(***************************************************************************)
(* Errors.                                                                 *)
(***************************************************************************)
Err(kind, name, type, n) == [kind |-> kind, name |-> name, type |-> type, n |-> n]

Nil == Err("nil", "", "", 0)

\* gocql.ErrNotFound
ErrNotFound == Err("NotFound", "", "", 0)

\* a run-time panic: the call does not return
Panic == Err("panic", "", "", 0)

\* the error kinds of the spec's InvalidDestination
InvalidDestination ==
    {"NotPointer", "NilPointer", "NotSlice", "StructScanNotPointer", "NotStruct"}

(***************************************************************************)
(* Destinations: the interface{} a caller passes.                          *)
(*   kind "value"  a non-pointer value of type `type`                      *)
(*   kind "nil"    a nil pointer to `type`                                 *)
(*   kind "ptr"    a pointer to the object `obj` of type `type`            *)
(*   kind "slice"  a pointer to a slice of `type` (of pointers to it when  *)
(*                 elemPtr), holding `elems` with capacity `cap`           *)
(* `addr` is the address of the object pointed at: the number of the call  *)
(* for an object of the caller, a negative number for an object made by    *)
(* reflect.New, 0 when unset.  `ptrs` runs along `elems`: the address of   *)
(* the object an element points at, 0 for an element held by value.        *)
(***************************************************************************)
Dest(kind, type, elemPtr, obj, elems, cap) ==
    [kind |-> kind, type |-> type, elemPtr |-> elemPtr,
     obj |-> obj, elems |-> elems, cap |-> cap,
     addr |-> 0, ptrs |-> [i \in 1..Len(elems) |-> 0]]

\* the destination d, its object being at address a
At(d, a) == [d EXCEPT !.addr = a]

ValueOf(t) == Dest("value", t, FALSE, New(t), <<>>, 0)
NilPtr(t) == Dest("nil", t, FALSE, New(t), <<>>, 0)
PtrToNew(t) == Dest("ptr", t, FALSE, New(t), <<>>, 0)
\* var v []T (or []*T): a nil slice
PtrToNilSlice(t, isPtr) == Dest("slice", t, isPtr, New(t), <<>>, 0)
\* a slice that already holds one element
PtrToUsedSlice(t) == Dest("slice", t, FALSE, New(t), <<New(t)>>, 1)

NoDest == Dest("none", "Int", FALSE, New("Int"), <<>>, 0)

(***************************************************************************)
(* The cursor (gocql.Iter), an external collaborator.  A result has an     *)
(* ordered column list and its rows arrive in pages; `page` is the page    *)
(* being read, `pos` the rows of it already scanned, `consumed` the rows   *)
(* scanned in all.  Decoding row failRow (when not 0) fails.  A query that *)
(* failed yields a cursor that carries the error and no columns or rows.   *)
(***************************************************************************)
RECURSIVE SumSeq(_)
SumSeq(s) == IF s = <<>> THEN 0 ELSE Head(s) + SumSeq(Tail(s))

\* page layouts of a result of n rows: one page, an empty page after it,
\* and a split into two non-empty pages
PageLayouts(n) ==
    {<<n>>, <<n, 0>>} \cup {<<k, n - k>> : k \in 1..(n - 1)}

NewCursor(columns, pages, failRow) ==
    [columns |-> columns, pages |-> pages, page |-> 1, pos |-> 0,
     consumed |-> 0, err |-> Nil, closed |-> FALSE, failRow |-> failRow]

FailedQuery ==
    [NewCursor(<<>>, <<0>>, 0) EXCEPT !.err = Err("Query", "", "", 0)]

\* the cursors of the model: every column list, every layout of up to
\* MaxRows rows (a result without columns has no rows), a decode failure at
\* none or at one of the rows; and the cursor of a failed query
Cursors ==
    {FailedQuery} \cup
    UNION {{NewCursor(columns, pages, failRow) :
                columns \in {cs \in ColumnLists : n = 0 \/ Len(cs) > 0},
                pages \in PageLayouts(n),
                failRow \in 0..n} : n \in 0..MaxRows}

TotalRows(c) == SumSeq(c.pages)

Remaining(c) == TotalRows(c) - c.consumed

\* gocql.Iter.Columns, reduced to the names by columnNames
columnNames(c) == c.columns

\* gocql.Iter.NumRows: the number of rows of the page being read
NumRows(c) == c.pages[c.page]

\* gocql.Iter.Scan with n destinations: [cur, ok]; when ok the row scanned
\* is row number cur.consumed, and cell i went to destination i.  A row
\* that fails to decode fails at its first column: nothing of it is written.
RECURSIVE IterScan(_, _)
IterScan(c, n) ==
    IF c.err # Nil
    THEN [cur |-> c, ok |-> FALSE]
    ELSE IF c.pos >= c.pages[c.page]
    THEN IF c.page < Len(c.pages)
         THEN IterScan([c EXCEPT !.page = @ + 1, !.pos = 0], n)
         ELSE [cur |-> c, ok |-> FALSE]
    ELSE IF n # Len(c.columns)
    THEN [cur |-> [c EXCEPT !.err = Err("DriverColumns", "", "", Len(c.columns))],
          ok |-> FALSE]
    ELSE IF c.failRow = c.consumed + 1
    THEN [cur |-> [c EXCEPT !.err = Err("DriverScan", "", "", c.failRow)],
          ok |-> FALSE]
    ELSE [cur |-> [c EXCEPT !.pos = @ + 1, !.consumed = @ + 1], ok |-> TRUE]

\* gocql.Iter.Close: [cur, err]
IterClose(c) == [cur |-> [c EXCEPT !.closed = TRUE], err |-> c.err]

(***************************************************************************)
(* The field resolver (reflectx.Mapper) and the helpers of StructScan.     *)
(* A traversal is the path to a field, <<>> when no field has the name.    *)
(***************************************************************************)
\* Mapper.TraversalsByName(t, columns)
TraversalsByName(t, columns) ==
    [i \in 1..Len(columns) |->
        IF columns[i] \in Index(t) THEN <<columns[i]>> ELSE <<>>]

\* missingFields: the first column without a traversal (columns count from 1)
missingFields(fields) ==
    LET missing == {i \in 1..Len(fields) : Len(fields[i]) = 0}
    IN IF missing = {}
       THEN [field |-> 0, err |-> FALSE]
       ELSE [field |-> CHOOSE i \in missing : \A j \in missing : i <= j,
             err |-> TRUE]

\* A slot is a pointer <<address of the object, field>>.
\* the slot of a column without a field: new(interface{})
Discard == <<0, "_">>

\* a slot of make([]interface{}, n): a nil interface
NilSlot == <<0, "">>

\* fieldsByTraversal(v, fields, values, true): the slots point at the fields
\* of the destination, in column order
fieldsByTraversal(d, fields) ==
    IF d.kind # "ptr" \/ Kind(d.type) # "struct"
    THEN [err |-> Err("NotStruct", "", "", 0), values |-> <<>>]
    ELSE IF \E i \in 1..Len(fields) :
                Len(fields[i]) > 0 /\ fields[i][1] \notin Index(d.type)
    THEN [err |-> Panic, values |-> <<>>]
    ELSE [err |-> Nil,
          values |-> [i \in 1..Len(fields) |->
                        IF Len(fields[i]) = 0 THEN Discard
                        ELSE <<d.addr, fields[i][1]>>]]

\* the object of d after the cursor wrote row r through the slots `values`:
\* the fields of it that a slot points at are written
WriteRow(d, values, columns, r) ==
    [f \in DOMAIN d.obj |->
        IF \E i \in 1..Len(values) : values[i] = <<d.addr, f>>
        THEN Cell(r, columns[CHOOSE i \in 1..Len(values) :
                                values[i] = <<d.addr, f>>])
        ELSE d.obj[f]]

\* structOnlyError(t)
structOnlyError(t) == Err("StructOnly", "", t, 0)

\* baseType(t, reflect.Slice) fails unless the pointer is to a slice
baseType(d) ==
    IF d.kind = "slice" THEN Nil ELSE Err("NotSlice", "", Kind(d.type), 0)

(***************************************************************************)
(* Iterx.  m = [it, cur, st]: the Iterx fields, its cursor, and counters   *)
(* of the calls made to the collaborators.                                 *)
(***************************************************************************)
\* a constructor that leaves unsafe at its zero value
NewIterx_AlwaysSafe(defaultUnsafe) ==
    [unsafe |-> FALSE, structOnly |-> FALSE, started |-> FALSE,
     err |-> Nil, fields |-> <<>>, values |-> <<>>]

\* the Iterx a query hands out: unsafe is read from DefaultUnsafe
NewIterx(defaultUnsafe) ==
    [unsafe |-> defaultUnsafe, structOnly |-> FALSE, started |-> FALSE,
     err |-> Nil, fields |-> <<>>, values |-> <<>>]

NoStats == [closeCalls |-> 0, resolves |-> 0, allocs |-> 0, news |-> 0]

SetErr(m, e) == [m EXCEPT !.it.err = e]

Result(m, ok, d) == [m |-> m, ok |-> ok, dest |-> d]

\* func (iter *Iterx) Unsafe
Unsafe(m) == [m EXCEPT !.it.unsafe = TRUE]

\* func (iter *Iterx) StructOnly
StructOnly(m) == [m EXCEPT !.it.structOnly = TRUE]

\* isScannable without the clause of the struct with no exported fields
isScannable_IgnoresFieldCount(t) ==
    \/ Implements(t)
    \/ Kind(t) # "struct"

\* func (iter *Iterx) isScannable
isScannable(t) ==
    \/ Implements(t)
    \/ Kind(t) # "struct"
    \/ Cardinality(Index(t)) = 0

\* StartScan with started set and the slots allocated before the check of
\* the missing fields
StartScan_StartsFirst(m, d) ==
    LET columns == columnNames(m.cur)
        m1 == [m EXCEPT !.it.fields = TraversalsByName(d.type, columns),
                        !.st.resolves = @ + 1,
                        !.it.values = [i \in 1..Len(columns) |-> NilSlot],
                        !.it.started = TRUE,
                        !.st.allocs = @ + 1]
        mf == missingFields(m1.it.fields)
    IN IF ~m1.it.unsafe /\ mf.err
       THEN [m |-> SetErr(m1, Err("MissingField", columns[mf.field], PtrTo(d.type), 0)),
             err |-> TRUE]
       ELSE [m |-> m1, err |-> FALSE]

\* StartScan refusing a missing field also when unsafe
StartScan_IgnoresUnsafe(m, d) ==
    LET columns == columnNames(m.cur)
        m1 == [m EXCEPT !.it.fields = TraversalsByName(d.type, columns),
                        !.st.resolves = @ + 1]
        mf == missingFields(m1.it.fields)
    IN IF mf.err
       THEN [m |-> SetErr(m1, Err("MissingField", columns[mf.field], PtrTo(d.type), 0)),
             err |-> TRUE]
       ELSE [m |-> [m1 EXCEPT !.it.values = [i \in 1..Len(columns) |-> NilSlot],
                              !.it.started = TRUE,
                              !.st.allocs = @ + 1],
             err |-> FALSE]

\* StartScan that forgets to set started
StartScan_NeverStarted(m, d) ==
    LET columns == columnNames(m.cur)
        m1 == [m EXCEPT !.it.fields = TraversalsByName(d.type, columns),
                        !.st.resolves = @ + 1]
        mf == missingFields(m1.it.fields)
    IN IF ~m1.it.unsafe /\ mf.err
       THEN [m |-> SetErr(m1, Err("MissingField", columns[mf.field], PtrTo(d.type), 0)),
             err |-> TRUE]
       ELSE [m |-> [m1 EXCEPT !.it.values = [i \in 1..Len(columns) |-> NilSlot],
                              !.st.allocs = @ + 1],
             err |-> FALSE]

\* StartScan that sets started without allocating the slots
StartScan_NoBuffer(m, d) ==
    LET columns == columnNames(m.cur)
        m1 == [m EXCEPT !.it.fields = TraversalsByName(d.type, columns),
                        !.st.resolves = @ + 1]
        mf == missingFields(m1.it.fields)
    IN IF ~m1.it.unsafe /\ mf.err
       THEN [m |-> SetErr(m1, Err("MissingField", columns[mf.field], PtrTo(d.type), 0)),
             err |-> TRUE]
       ELSE [m |-> [m1 EXCEPT !.it.started = TRUE], err |-> FALSE]

\* StructScan, the block run while !iter.started: resolve the traversals of
\* the columns, refuse a missing field unless unsafe, allocate the value
\* slots.  [m, err]
StartScan(m, d) ==
    LET columns == columnNames(m.cur)
        m1 == [m EXCEPT !.it.fields = TraversalsByName(d.type, columns),
                        !.st.resolves = @ + 1]
        mf == missingFields(m1.it.fields)
    IN IF ~m1.it.unsafe /\ mf.err
       THEN [m |-> SetErr(m1, Err("MissingField", columns[mf.field], PtrTo(d.type), 0)),
             err |-> TRUE]
       ELSE [m |-> [m1 EXCEPT !.it.values = [i \in 1..Len(columns) |-> NilSlot],
                              !.it.started = TRUE,
                              !.st.allocs = @ + 1],
             err |-> FALSE]

\* BindAndScan scanning into the slots as they are, without pointing them at
\* the fields of dest
BindAndScan_NoRepoint(m, d) ==
    LET fbt == fieldsByTraversal(d, m.it.fields)
    IN IF fbt.err # Nil
       THEN Result(SetErr(m, fbt.err), FALSE, d)
       ELSE LET sc == IterScan(m.cur, Len(m.it.values))
            IN Result([m EXCEPT !.cur = sc.cur], sc.ok,
                      IF sc.ok
                      THEN [d EXCEPT !.obj = WriteRow(d, m.it.values,
                                                      sc.cur.columns, sc.cur.consumed)]
                      ELSE d)

\* StructScan, after the plan is there: point the slots at the fields of
\* dest and scan one row into them
BindAndScan(m, d) ==
    LET fbt == fieldsByTraversal(d, m.it.fields)
    IN IF fbt.err # Nil
       THEN Result(SetErr(m, fbt.err), FALSE, d)
       ELSE LET m1 == [m EXCEPT !.it.values = fbt.values]
                sc == IterScan(m1.cur, Len(m1.it.values))
            IN Result([m1 EXCEPT !.cur = sc.cur], sc.ok,
                      IF sc.ok
                      THEN [d EXCEPT !.obj = WriteRow(d, m1.it.values,
                                                      sc.cur.columns, sc.cur.consumed)]
                      ELSE d)

\* StructScan that clears the recorded error when it is entered
StructScan_ClearsErr(m, d) ==
    IF d.kind = "value"
    THEN Result(SetErr(m, Err("StructScanNotPointer", "", "", 0)), FALSE, d)
    ELSE IF ~m.it.started
    THEN LET s == StartScan(SetErr(m, Nil), d)
         IN IF s.err THEN Result(s.m, FALSE, d) ELSE BindAndScan(s.m, d)
    ELSE BindAndScan(SetErr(m, Nil), d)

\* StructScan that scans the row first and looks for missing fields after
StructScan_ChecksMissingAfterScan(m, d) ==
    IF d.kind = "value"
    THEN Result(SetErr(m, Err("StructScanNotPointer", "", "", 0)), FALSE, d)
    ELSE IF ~m.it.started
    THEN LET s == StartScan([m EXCEPT !.it.unsafe = TRUE], d)
             r == BindAndScan([s.m EXCEPT !.it.unsafe = m.it.unsafe], d)
             mf == missingFields(s.m.it.fields)
         IN IF ~m.it.unsafe /\ mf.err
            THEN Result(SetErr(r.m, Err("MissingField",
                                        columnNames(m.cur)[mf.field],
                                        PtrTo(d.type), 0)),
                        FALSE, d)
            ELSE r
    ELSE BindAndScan(m, d)

\* StructScan resolving the plan on every call, started or not
StructScan_ResolvesEveryCall(m, d) ==
    IF d.kind = "value"
    THEN Result(SetErr(m, Err("StructScanNotPointer", "", "", 0)), FALSE, d)
    ELSE LET s == StartScan(m, d)
         IN IF s.err THEN Result(s.m, FALSE, d) ELSE BindAndScan(s.m, d)

\* StructScan pointing the slots at dest only in the call that starts the
\* binder
StructScan_BindsOnce(m, d) ==
    IF d.kind = "value"
    THEN Result(SetErr(m, Err("StructScanNotPointer", "", "", 0)), FALSE, d)
    ELSE IF ~m.it.started
    THEN LET s == StartScan(m, d)
         IN IF s.err THEN Result(s.m, FALSE, d) ELSE BindAndScan(s.m, d)
    ELSE BindAndScan_NoRepoint(m, d)

\* func (iter *Iterx) StructScan
StructScan(m, d) ==
    IF d.kind = "value"
    THEN Result(SetErr(m, Err("StructScanNotPointer", "", "", 0)), FALSE, d)
    ELSE IF ~m.it.started
    THEN LET s == StartScan(m, d)
         IN IF s.err THEN Result(s.m, FALSE, d) ELSE BindAndScan(s.m, d)
    ELSE BindAndScan(m, d)

\* gocql.Iter.Scan(dest) promoted through Iterx: one destination, written
\* as one opaque value
Scan(m, d) ==
    LET sc == IterScan(m.cur, 1)
    IN Result([m EXCEPT !.cur = sc.cur], sc.ok,
              IF sc.ok
              THEN [d EXCEPT !.obj.self = Cell(sc.cur.consumed, sc.cur.columns[1])]
              ELSE d)

\* Classify without the structOnly override
Classify_IgnoresStructOnly(m, base) ==
    [scannable |-> isScannable(base), err |-> Nil]

\* Classify overriding only structs, and letting other types through
Classify_LetsNonStructThrough(m, base) ==
    LET scannable == isScannable(base)
    IN IF m.it.structOnly /\ scannable /\ Kind(base) = "struct"
       THEN [scannable |-> FALSE, err |-> Nil]
       ELSE [scannable |-> scannable, err |-> Nil]

\* scanAny and scanAll, the classification of the base type: the verdict
\* after the structOnly override, or the error of a misuse
Classify(m, base) ==
    LET scannable == isScannable(base)
    IN IF m.it.structOnly /\ scannable
       THEN IF Kind(base) = "struct"
            THEN [scannable |-> FALSE, err |-> Nil]
            ELSE [scannable |-> scannable, err |-> structOnlyError(base)]
       ELSE [scannable |-> scannable, err |-> Nil]

\* the error of a scannable type against more than one column
ColumnCountError(m, base) ==
    Err("ColumnCount", "", Kind(base), Len(m.cur.columns))

\* the column check applied only to a binder that is not unsafe
TooManyColumns_SafeOnly(m, scannable) ==
    ~m.it.unsafe /\ scannable /\ Len(m.cur.columns) > 1

\* scanAny and scanAll: scannable && len(iter.Columns()) > 1
TooManyColumns(m, scannable) ==
    scannable /\ Len(m.cur.columns) > 1

\* the check of the pointer letting a nil pointer through
CheckPointer_NilPasses(d) ==
    IF d.kind = "value" THEN Err("NotPointer", "", d.type, 0) ELSE Nil

\* scanAny and scanAll, the check of dest: it must be a pointer, and not nil
CheckPointer(d) ==
    IF d.kind = "value"
    THEN Err("NotPointer", "", d.type, 0)
    ELSE IF d.kind = "nil"
    THEN Err("NilPointer", "", "", 0)
    ELSE Nil

\* func (iter *Iterx) scanAny
scanAny(m, d) ==
    IF CheckPointer(d) # Nil
    THEN Result(SetErr(m, CheckPointer(d)), FALSE, d)
    ELSE LET base == d.type
             c == Classify(m, base)
         IN IF c.err # Nil
            THEN Result(SetErr(m, c.err), FALSE, d)
            ELSE IF TooManyColumns(m, c.scannable)
            THEN Result(SetErr(m, ColumnCountError(m, base)), FALSE, d)
            ELSE IF c.scannable
            THEN Scan(m, d)
            ELSE StructScan(m, d)

\* Close that leaves the cursor alone once an error is recorded
Close_SkipsOnError(m) ==
    IF m.it.err # Nil
    THEN [m |-> m, err |-> m.it.err]
    ELSE LET cl == IterClose(m.cur)
             m1 == [m EXCEPT !.cur = cl.cur, !.st.closeCalls = @ + 1]
         IN [m |-> SetErr(m1, cl.err), err |-> cl.err]

\* Close that records the cursor's error over the one recorded before
Close_Overwrites(m) ==
    LET cl == IterClose(m.cur)
        m1 == SetErr([m EXCEPT !.cur = cl.cur, !.st.closeCalls = @ + 1], cl.err)
    IN [m |-> m1, err |-> m1.it.err]

\* func (iter *Iterx) Close: [m, err]
Close(m) ==
    LET cl == IterClose(m.cur)
        m1 == [m EXCEPT !.cur = cl.cur, !.st.closeCalls = @ + 1]
        m2 == IF m1.it.err = Nil THEN SetErr(m1, cl.err) ELSE m1
    IN [m |-> m2, err |-> m2.it.err]

\* checkErrAndNotFound without the check of the row count
checkErrAndNotFound_ErrOnly(m) == m.it.err

\* func (iter *Iterx) checkErrAndNotFound
checkErrAndNotFound(m) ==
    IF m.it.err # Nil
    THEN m.it.err
    ELSE IF NumRows(m.cur) = 0
    THEN ErrNotFound
    ELSE Nil

\* func (iter *Iterx) Get: [m, dest, err, scanErr], scanErr being the error
\* recorded when the scan returned
Get(m, d) ==
    LET s == scanAny(m, d)
        c == Close(s.m)
    IN [m |-> c.m, dest |-> s.dest, err |-> checkErrAndNotFound(c.m),
        scanErr |-> s.m.it.err]

\* reflect.MakeSlice(slice, 0, n)
MakeSlice(n) == [elems |-> <<>>, ptrs |-> <<>>, cap |-> n]

\* reflect.Append of the element e = [obj, ptr]: the capacity doubles when
\* the slice is full
AppendElem(v, e) ==
    [elems |-> Append(v.elems, e.obj),
     ptrs |-> Append(v.ptrs, e.ptr),
     cap |-> IF Len(v.elems) < v.cap THEN v.cap
             ELSE IF v.cap = 0 THEN 1 ELSE 2 * v.cap]

\* the address of the next object made by reflect.New
NewAddr(st) == 0 - (st.news + 1)

\* reflect.New that hands out the address of the object made before
ReflectNew_SameObject(m, base) ==
    [m |-> [m EXCEPT !.st.news = @ + 1], vp |-> At(PtrToNew(base), 0 - 1)]

\* scanAll, vp = reflect.New(base): [m, vp]
ReflectNew(m, base) ==
    [m |-> [m EXCEPT !.st.news = @ + 1],
     vp |-> At(PtrToNew(base), NewAddr(m.st))]

\* the element appended for vp: vp itself, or reflect.Indirect(vp)
Element(vp, isPtr) ==
    [obj |-> vp.obj, ptr |-> IF isPtr THEN vp.addr ELSE 0]

\* scanAll, the loop over the rows: [m, alloc, v]
RECURSIVE scanLoop(_, _, _, _, _, _)
scanLoop(m, base, isPtr, scannable, alloc, v) ==
    LET n == ReflectNew(m, base)
        r == IF ~scannable THEN StructScan(n.m, n.vp) ELSE Scan(n.m, n.vp)
    IN IF ~r.ok
       THEN [m |-> r.m, alloc |-> alloc, v |-> v]
       ELSE LET v1 == IF ~alloc THEN MakeSlice(NumRows(r.m.cur)) ELSE v
            IN scanLoop(r.m, base, isPtr, scannable, TRUE,
                        AppendElem(v1, Element(r.dest, isPtr)))

\* StoreSlice that sets dest whether or not a slice was allocated
StoreSlice_Always(d, alloc, v) ==
    [d EXCEPT !.elems = v.elems, !.ptrs = v.ptrs, !.cap = v.cap]

\* scanAll, after the loop: dest is updated only if a slice was allocated
StoreSlice(d, alloc, v) ==
    IF alloc
    THEN [d EXCEPT !.elems = v.elems, !.ptrs = v.ptrs, !.cap = v.cap]
    ELSE d

\* scanAll counting the columns before it looks at structOnly
scanAll_CountsColumnsFirst(m, d) ==
    IF CheckPointer(d) # Nil
    THEN Result(SetErr(m, CheckPointer(d)), FALSE, d)
    ELSE IF baseType(d) # Nil
    THEN Result(SetErr(m, baseType(d)), FALSE, d)
    ELSE LET base == d.type
             c == Classify(m, base)
         IN IF TooManyColumns(m, isScannable(base))
            THEN Result(SetErr(m, ColumnCountError(m, base)), FALSE, d)
            ELSE IF c.err # Nil
            THEN Result(SetErr(m, c.err), FALSE, d)
            ELSE LET l == scanLoop(m, base, d.elemPtr, c.scannable, FALSE,
                                   MakeSlice(0))
                 IN Result(l.m, TRUE, StoreSlice(d, l.alloc, l.v))

\* func (iter *Iterx) scanAll
scanAll(m, d) ==
    IF CheckPointer(d) # Nil
    THEN Result(SetErr(m, CheckPointer(d)), FALSE, d)
    ELSE IF baseType(d) # Nil
    THEN Result(SetErr(m, baseType(d)), FALSE, d)
    ELSE LET base == d.type
             c == Classify(m, base)
         IN IF c.err # Nil
            THEN Result(SetErr(m, c.err), FALSE, d)
            ELSE IF TooManyColumns(m, c.scannable)
            THEN Result(SetErr(m, ColumnCountError(m, base)), FALSE, d)
            ELSE LET l == scanLoop(m, base, d.elemPtr, c.scannable, FALSE,
                                   MakeSlice(0))
                 IN Result(l.m, TRUE, StoreSlice(d, l.alloc, l.v))

\* Select that hands dest back as it was when an error is returned
Select_RestoresOnError(m, d) ==
    LET s == scanAll(m, d)
        c == Close(s.m)
    IN [m |-> c.m, dest |-> IF c.m.it.err # Nil THEN d ELSE s.dest,
        err |-> c.m.it.err, scanErr |-> s.m.it.err]

\* func (iter *Iterx) Select: [m, dest, err, scanErr]
Select(m, d) ==
    LET s == scanAll(m, d)
        c == Close(s.m)
    IN [m |-> c.m, dest |-> s.dest, err |-> c.m.it.err,
        scanErr |-> s.m.it.err]

(***************************************************************************)
(* The state machine: a caller making up to MaxOps calls on one binder.    *)
(***************************************************************************)
Machine == [it |-> iter, cur |-> cur, st |-> stats]

\* the record of a call: the method, its argument, the argument after the
\* call, the error or bool returned, the error recorded when the scan of a
\* Get or Select returned, and the state the call started from
Call(op, d, out, ret, ok, scanErr) ==
    [op |-> op, dest |-> d, out |-> out, ret |-> ret, ok |-> ok,
     scanErr |-> scanErr, pre |-> Machine]

StructTypes == {t \in Types : Kind(t) = "struct"}

\* the destinations of the set ds as passed by the next call: the object of
\* each is one the caller made for this call
Passed(ds) == {At(d, nOps + 1) : d \in ds}

GetDests ==
    {ValueOf("Person"), NilPtr("Person")} \cup {PtrToNew(t) : t \in Types}

SelectDests ==
    {ValueOf("Person"), NilPtr("Person"), PtrToNew("Person")}
    \cup {PtrToNilSlice(t, FALSE) : t \in Types}
    \cup {PtrToNilSlice("Person", TRUE), PtrToUsedSlice("Person")}

\* StructScan is given struct pointers, nil or not, or a value
StructScanDests ==
    {ValueOf("Person"), NilPtr("Person")} \cup {PtrToNew(t) : t \in StructTypes}

\* The cursor releases its frame when closed: it is scanned again only when
\* that reads no row (it carries an error, or no row is left).
CanScan == ~cur.closed \/ cur.err # Nil \/ Remaining(cur) = 0

\* A call that panics does not return; the caller is to keep to one struct
\* layout per binder (doc of StructScan).
Returns(m) == m.it.err # Panic

\* the threads of SpecConc; the object of thread t is at address t
Threads == {1, 2}

\* a thread about to call StructScan with a pointer to a new object of type t
NewThread(t) ==
    [pc |-> "call", type |-> t, slot |-> 1, ok |-> FALSE, row |-> 0,
     via |-> <<>>, before |-> <<>>, after |-> <<>>]

\* the binder and its cursor after construction
InitBinder ==
    /\ DefaultUnsafe \in BOOLEAN
    /\ made = [unsafe |-> DefaultUnsafe]
    /\ iter = NewIterx(DefaultUnsafe)
    /\ cur \in Cursors
    /\ stats = NoStats
    /\ nOps = 0
    /\ last = [op |-> "new", dest |-> NoDest, out |-> NoDest, ret |-> Nil,
               ok |-> FALSE, scanErr |-> Nil,
               pre |-> [it |-> iter, cur |-> cur, st |-> stats]]

Init ==
    /\ InitBinder
    /\ thr = [t \in Threads |-> NewThread("Person")]
    /\ heap = [t \in Threads |-> New("Person")]

Update(m, call) ==
    /\ iter' = m.it
    /\ cur' = m.cur
    /\ stats' = m.st
    /\ last' = call
    /\ nOps' = nOps + 1
    /\ UNCHANGED <<DefaultUnsafe, made, thr, heap>>

CallUnsafe ==
    /\ nOps < MaxOps
    /\ ~iter.unsafe
    /\ Update(Unsafe(Machine), Call("Unsafe", NoDest, NoDest, Nil, TRUE, Nil))

CallStructOnly ==
    /\ nOps < MaxOps
    /\ ~iter.structOnly
    /\ Update(StructOnly(Machine), Call("StructOnly", NoDest, NoDest, Nil, TRUE, Nil))

CallStructScan ==
    /\ nOps < MaxOps
    /\ CanScan
    /\ \E d \in Passed(StructScanDests) :
        \E r \in {StructScan(Machine, d)} :
           /\ Returns(r.m)
           /\ Update(r.m, Call("StructScan", d, r.dest, r.m.it.err, r.ok, Nil))

CallGet ==
    /\ nOps < MaxOps
    /\ CanScan
    /\ \E d \in Passed(GetDests) :
        \E r \in {Get(Machine, d)} :
           /\ Returns(r.m)
           /\ Update(r.m, Call("Get", d, r.dest, r.err, r.err = Nil, r.scanErr))

CallSelect ==
    /\ nOps < MaxOps
    /\ CanScan
    /\ \E d \in Passed(SelectDests) :
        \E r \in {Select(Machine, d)} :
           /\ Returns(r.m)
           /\ Update(r.m, Call("Select", d, r.dest, r.err, r.err = Nil, r.scanErr))

CallClose ==
    /\ nOps < MaxOps
    /\ \E r \in {Close(Machine)} :
          Update(r.m, Call("Close", NoDest, NoDest, r.err, r.err = Nil, Nil))

\* the process assigns the package variable DefaultUnsafe
SetDefaultUnsafe ==
    /\ nOps < MaxOps
    /\ \E b \in BOOLEAN :
          /\ b # DefaultUnsafe
          /\ DefaultUnsafe' = b
    /\ last' = Call("SetDefaultUnsafe", NoDest, NoDest, Nil, TRUE, Nil)
    /\ nOps' = nOps + 1
    /\ UNCHANGED <<iter, cur, stats, made, thr, heap>>

Next ==
    \/ SetDefaultUnsafe
    \/ CallUnsafe
    \/ CallStructOnly
    \/ CallStructScan
    \/ CallGet
    \/ CallSelect
    \/ CallClose

Spec == Init /\ [][Next]_vars

(***************************************************************************)
(* Two threads on one binder.  Each thread makes one StructScan call with  *)
(* a pointer to its own object; the call is taken in the steps in which it *)
(* reads and writes the fields of the binder: the test of started, the     *)
(* block run while not started, the re-pointing of the slots one by one,   *)
(* and the scan of the cursor through the slots.  Iterx holds no lock, so  *)
(* the steps of the two calls interleave freely.                           *)
(***************************************************************************)
\* the destination thread t passes: a pointer to its object
DestOf(t) == At([PtrToNew(thr[t].type) EXCEPT !.obj = heap[t]], t)

\* the object at address a as the cursor sees it through a slot
ObjectAt(a) == [obj |-> heap[a], addr |-> a]

\* a scan through slots of the call's own, pointed at its own destination
ScanValues_OwnSlots(m, d) == fieldsByTraversal(d, m.it.fields).values

\* StructScan, iter.Iter.Scan(iter.values...): the slots handed to the
\* cursor are the ones of the binder, as they are when the scan is made
ScanValues(m, d) == m.it.values

\* StructScan up to `if !iter.started`: dest is a pointer; started is read
Enter(t) ==
    /\ thr[t].pc = "call"
    /\ thr' = [thr EXCEPT ![t].pc = IF iter.started THEN "bind" ELSE "start"]
    /\ UNCHANGED <<iter, cur, stats, last, nOps, DefaultUnsafe, made, heap>>

\* StructScan, the block run while not started
Start(t) ==
    /\ thr[t].pc = "start"
    /\ \E s \in {StartScan(Machine, DestOf(t))} :
          /\ iter' = s.m.it
          /\ stats' = s.m.st
          /\ thr' = [thr EXCEPT ![t].pc = IF s.err THEN "done" ELSE "bind"]
    /\ UNCHANGED <<cur, last, nOps, DefaultUnsafe, made, heap>>

\* StructScan, fieldsByTraversal: one slot is pointed at a field of dest
BindSlot(t) ==
    /\ thr[t].pc = "bind"
    /\ \E fbt \in {fieldsByTraversal(DestOf(t), iter.fields)} :
          IF fbt.err # Nil
          THEN /\ iter' = [iter EXCEPT !.err = fbt.err]
               /\ thr' = [thr EXCEPT ![t].pc = "done"]
          ELSE IF thr[t].slot > Len(fbt.values)
          THEN /\ thr' = [thr EXCEPT ![t].pc = "scan"]
               /\ UNCHANGED iter
          ELSE /\ iter' = [iter EXCEPT !.values[thr[t].slot] =
                                          fbt.values[thr[t].slot]]
               /\ thr' = [thr EXCEPT ![t].slot = @ + 1]
    /\ UNCHANGED <<cur, stats, last, nOps, DefaultUnsafe, made, heap>>

\* StructScan, return iter.Iter.Scan(iter.values...): a row is written
\* through the slots, into whatever object each points at
ScanStep(t) ==
    /\ thr[t].pc = "scan"
    /\ \E vs \in {ScanValues(Machine, DestOf(t))} :
        \E sc \in {IterScan(cur, Len(vs))} :
        \E h \in {IF sc.ok
                  THEN [a \in Threads |->
                          WriteRow(ObjectAt(a), vs, sc.cur.columns,
                                   sc.cur.consumed)]
                  ELSE heap} :
          /\ cur' = sc.cur
          /\ heap' = h
          /\ thr' = [thr EXCEPT ![t].pc = "done", ![t].ok = sc.ok,
                                ![t].row = sc.cur.consumed,
                                ![t].via = iter.values,
                                ![t].before = heap, ![t].after = h]
    /\ UNCHANGED <<iter, stats, last, nOps, DefaultUnsafe, made>>

InitConc ==
    /\ InitBinder
    /\ thr \in [Threads -> {NewThread(t) : t \in {"Person", "FullName"}}]
    /\ heap = [t \in Threads |-> New(thr[t].type)]

NextConc ==
    \E t \in Threads :
        \/ Enter(t)
        \/ Start(t)
        \/ BindSlot(t)
        \/ ScanStep(t)

SpecConc == InitConc /\ [][NextConc]_vars

(***************************************************************************)
(* Vocabulary of the properties.                                           *)
(***************************************************************************)
Pre == last.pre

\* the rows the last call took from the cursor
RowsScanned == cur.consumed - Pre.cur.consumed

\* the last call was a Get or a Select given a destination of the right
\* shape (a non-nil pointer, to a slice for Select)
ValidGet == last.op = "Get" /\ last.dest.kind = "ptr"
ValidSelect == last.op = "Select" /\ last.dest.kind = "slice"

\* the last call scanned through the Row Binder (StructScan)
ViaBinder ==
    \/ last.op = "StructScan" /\ last.dest.kind # "value"
    \/ /\ ValidGet \/ ValidSelect
       /\ Classify(Pre, last.dest.type).err = Nil
       /\ ~Classify(Pre, last.dest.type).scannable

\* the columns of the result without a field in t, in column order
Unmapped(t, columns) == {i \in 1..Len(columns) : columns[i] \notin Index(t)}

FirstUnmapped(t, columns) ==
    columns[CHOOSE i \in Unmapped(t, columns) :
                \A j \in Unmapped(t, columns) : i <= j]

\* the cursor has a next row and hands it over
NextRowOk(c) ==
    c.err = Nil /\ Remaining(c) > 0 /\ c.failRow # c.consumed + 1

\* the cursor hands over all the rows it has left
RestOk(c) == c.err = Nil /\ (c.failRow = 0 \/ c.failRow <= c.consumed)

\* the binder has no plan yet, or the plan it cached is the one of type t
PlanIsFor(it, t, columns) ==
    ~it.started \/ it.fields = TraversalsByName(t, columns)

\* object o holds row r of the columns in its mapped fields, and zero in
\* the fields no column names
HoldsRow(o, t, columns, r) ==
    \A f \in Index(t) :
        o[f] = IF f \in Range(columns) THEN Cell(r, f) ELSE Zero

(***************************************************************************)
(* C1.  Get on a cursor that yields no row, given a valid destination and  *)
(* meeting no validation, scan or close error, returns ErrNotFound.        *)
(***************************************************************************)
C1_GetNoRowsIsNotFound ==
    (/\ ValidGet
     /\ TotalRows(cur) = 0
     /\ last.scanErr = Nil
     /\ cur.err = Nil)
    => last.ret = ErrNotFound

C1_Witness ==
    /\ ValidGet
    /\ last.dest.type = "Person"
    /\ TotalRows(cur) = 0
    /\ last.ret = ErrNotFound

(***************************************************************************)
(* C2.  A Select that gets no row from the cursor (the result is empty, is *)
(* used up, or fails at its first row) never returns ErrNotFound, returns  *)
(* nil unless a validation or the cursor reports an error, and leaves the  *)
(* destination as it was: a nil slice stays without elements and without   *)
(* capacity, whatever NumRows the cursor reports.                          *)
(***************************************************************************)
C2_SelectNoRowsKeepsDest ==
    (last.op = "Select" /\ RowsScanned = 0)
    => /\ last.ret # ErrNotFound
       /\ (last.scanErr = Nil /\ cur.err = Nil) => last.ret = Nil
       /\ last.out = last.dest
       /\ last.dest.cap = 0 => (last.out.cap = 0 /\ Len(last.out.elems) = 0)

C2_Witness ==
    /\ ValidSelect
    /\ RowsScanned = 0
    /\ NumRows(cur) > 0
    /\ last.ret = Nil
    /\ last.dest = At(PtrToNilSlice("Person", FALSE), nOps)
    /\ last.out.cap = 0

(***************************************************************************)
(* C3.  Every Get and every Select calls the cursor's Close exactly once   *)
(* before it returns, whatever path it takes.                              *)
(***************************************************************************)
C3_ClosedOncePerCall ==
    last.op \in {"Get", "Select"}
    => /\ stats.closeCalls = Pre.st.closeCalls + 1
       /\ cur.closed

C3_Witness ==
    /\ last.op = "Select"
    /\ last.ret.kind = "DriverScan"
    /\ RowsScanned = 1
    /\ stats.closeCalls = 1
    /\ cur.closed

(***************************************************************************)
(* C4.  The error of Get is the error recorded when the scan returned, if  *)
(* any; else the error the cursor's Close reports; else ErrNotFound when   *)
(* the cursor counts zero rows; else nil.  Select: the same without the    *)
(* ErrNotFound step.                                                       *)
(***************************************************************************)
C4_ErrorPrecedence ==
    /\ last.op = "Get"
       => last.ret = IF last.scanErr # Nil THEN last.scanErr
                     ELSE IF cur.err # Nil THEN cur.err
                     ELSE IF NumRows(cur) = 0 THEN ErrNotFound
                     ELSE Nil
    /\ last.op = "Select"
       => last.ret = IF last.scanErr # Nil THEN last.scanErr ELSE cur.err

C4_Witness ==
    /\ last.op = "Get"
    /\ last.scanErr.kind = "NotPointer"
    /\ cur.err.kind = "DriverScan"
    /\ last.ret = last.scanErr

(***************************************************************************)
(* C5.  In safe mode the first StructScan of an unstarted binder whose     *)
(* columns include one without a destination field fails with MissingField *)
(* naming the first such column and the destination type; the binder stays *)
(* unstarted, no slot buffer is allocated and no row is taken.  Through    *)
(* Get and Select the call returns that error, and Select leaves the       *)
(* destination slice as it was (a nil slice keeps capacity 0).             *)
(***************************************************************************)
C5_MissingFieldSafe ==
    (/\ ViaBinder
     /\ ~Pre.it.started
     /\ ~Pre.it.unsafe
     /\ Unmapped(last.dest.type, Pre.cur.columns) # {})
    => /\ iter.err = Err("MissingField",
                         FirstUnmapped(last.dest.type, Pre.cur.columns),
                         PtrTo(last.dest.type), 0)
       /\ ~last.ok
       /\ last.op \in {"Get", "Select"} => last.ret = iter.err
       /\ ~iter.started
       /\ iter.values = <<>>
       /\ stats.allocs = Pre.st.allocs
       /\ RowsScanned = 0
       /\ last.out = last.dest
       /\ (last.op = "Select" /\ last.dest.cap = 0) => last.out.cap = 0

C5_Witness ==
    /\ last.op = "StructScan"
    /\ last.dest = At(PtrToNew("Empty"), nOps)
    /\ cur.columns = <<"b", "a">>
    /\ iter.err = Err("MissingField", "b", "*Empty", 0)
    /\ ~iter.started

(***************************************************************************)
(* C6.  With the binder unsafe, a result with columns that have no         *)
(* destination field is scanned without error: the mapped columns end up   *)
(* in their fields, the other columns in no field, and Get and Select      *)
(* return nil.                                                             *)
(***************************************************************************)
C6_UnsafeDiscardsUnmapped ==
    (/\ ViaBinder
     /\ last.op \in {"Get", "Select"}
     /\ Pre.it.unsafe
     /\ Pre.it.err = Nil
     /\ PlanIsFor(Pre.it, last.dest.type, Pre.cur.columns)
     /\ Unmapped(last.dest.type, Pre.cur.columns) # {}
     /\ RestOk(Pre.cur)
     /\ Remaining(Pre.cur) > 0)
    => /\ last.ret = Nil
       /\ last.op = "Get"
          => /\ HoldsRow(last.out.obj, last.dest.type, cur.columns, cur.consumed)
             /\ last.out.obj.self = last.dest.obj.self
       /\ last.op = "Select"
          => /\ Len(last.out.elems) = Remaining(Pre.cur)
             /\ \A i \in 1..Len(last.out.elems) :
                    /\ HoldsRow(last.out.elems[i], last.dest.type, cur.columns,
                                Pre.cur.consumed + i)
                    /\ last.out.elems[i].self = Zero

C6_Witness ==
    /\ ValidSelect
    /\ last.dest.type = "Person"
    /\ Pre.it.unsafe
    /\ cur.columns = <<"x", "b">>
    /\ last.ret = Nil
    /\ Len(last.out.elems) = 2
    /\ last.out.elems[2] = [a |-> Zero, b |-> Cell(2, "b"), self |-> Zero]

(***************************************************************************)
(* C7.  For a record type whose mapped fields are exactly the columns of   *)
(* the result, in either order, Get on a result with a row puts the cell   *)
(* of each column into the field of the same name and returns nil.         *)
(***************************************************************************)
C7_GetPopulatesByName ==
    (/\ ValidGet
     /\ ViaBinder
     /\ Range(Pre.cur.columns) = Index(last.dest.type)
     /\ Pre.it.err = Nil
     /\ PlanIsFor(Pre.it, last.dest.type, Pre.cur.columns)
     /\ NextRowOk(Pre.cur))
    => /\ last.ret = Nil
       /\ RowsScanned = 1
       /\ \A f \in Index(last.dest.type) :
              last.out.obj[f] = Cell(cur.consumed, f)

C7_Witness ==
    /\ ValidGet
    /\ last.dest.type = "Person"
    /\ cur.columns = <<"b", "a">>
    /\ last.ret = Nil
    /\ last.out.obj = [a |-> Cell(1, "a"), b |-> Cell(1, "b"), self |-> Zero]

(***************************************************************************)
(* C8.  Plan caching: a call that scans N >= 1 rows through the binder     *)
(* resolves the traversals and allocates the slot buffer once if the       *)
(* binder was unstarted, on the first row, and not at all if it was        *)
(* started; the buffer is allocated at most once in the life of a binder.  *)
(***************************************************************************)
C8_PlanResolvedOnce ==
    /\ stats.allocs = IF iter.started THEN 1 ELSE 0
    /\ (ViaBinder /\ RowsScanned >= 1)
       => /\ iter.started
          /\ stats.resolves - Pre.st.resolves = IF Pre.it.started THEN 0 ELSE 1
          /\ stats.allocs - Pre.st.allocs = IF Pre.it.started THEN 0 ELSE 1

C8_Witness ==
    /\ ValidSelect
    /\ ViaBinder
    /\ RowsScanned = 2
    /\ stats.resolves = 1
    /\ stats.allocs = 1

(***************************************************************************)
(* C9.  With structOnly set, a record type whose pointer implements the    *)
(* unmarshal capability is scanned field by field by Get and by Select, so *)
(* a result of several columns is mapped onto its fields; without          *)
(* structOnly the same type and result fail with the error about the       *)
(* column count.                                                           *)
(***************************************************************************)
C9_StructOnlyBypassesUnmarshaler ==
    (/\ ValidGet \/ ValidSelect
     /\ Implements(last.dest.type)
     /\ Kind(last.dest.type) = "struct"
     /\ Len(Pre.cur.columns) > 1)
    => /\ ~Pre.it.structOnly
          => /\ last.ret = ColumnCountError(Pre, last.dest.type)
             /\ RowsScanned = 0
             /\ last.out = last.dest
       /\ (/\ Pre.it.structOnly
           /\ Pre.it.err = Nil
           /\ PlanIsFor(Pre.it, last.dest.type, Pre.cur.columns)
           /\ Unmapped(last.dest.type, Pre.cur.columns) = {}
           /\ RestOk(Pre.cur)
           /\ Remaining(Pre.cur) > 0)
          => /\ last.ret = Nil
             /\ last.op = "Get"
                => HoldsRow(last.out.obj, last.dest.type, cur.columns, cur.consumed)
             /\ last.op = "Select"
                => /\ Len(last.out.elems) = Remaining(Pre.cur)
                   /\ \A i \in 1..Len(last.out.elems) :
                          HoldsRow(last.out.elems[i], last.dest.type, cur.columns,
                                   Pre.cur.consumed + i)

C9_Witness ==
    /\ ValidSelect
    /\ last.dest.type = "FullName"
    /\ Pre.it.structOnly
    /\ cur.columns = <<"a", "b">>
    /\ last.ret = Nil
    /\ last.out.elems = <<[a |-> Cell(1, "a"), b |-> Cell(1, "b"), self |-> Zero]>>

(***************************************************************************)
(* C10.  With structOnly set, Get or Select on a destination whose base    *)
(* type is not a record type fails with the struct-only error naming the   *)
(* type; no row is taken from the cursor and the destination is not        *)
(* modified.                                                               *)
(***************************************************************************)
C10_StructOnlyMisuse ==
    (/\ ValidGet \/ ValidSelect
     /\ Pre.it.structOnly
     /\ Kind(last.dest.type) # "struct")
    => /\ last.ret = Err("StructOnly", "", last.dest.type, 0)
       /\ RowsScanned = 0
       /\ last.out = last.dest

C10_Witness ==
    /\ ValidGet
    /\ last.dest.type = "Int"
    /\ Pre.it.structOnly
    /\ Remaining(Pre.cur) > 0
    /\ Len(cur.columns) = 1
    /\ last.ret.kind = "StructOnly"

(***************************************************************************)
(* C11.  A Get whose destination, or a Select whose element type, is       *)
(* classified as a single scannable value fails with the column count      *)
(* error when the result has two or more columns, on a safe and on an      *)
(* unsafe binder alike; no row is taken and dest is left as it was.        *)
(***************************************************************************)
C11_ScannableManyColumns ==
    (/\ ValidGet \/ ValidSelect
     /\ Classify(Pre, last.dest.type).err = Nil
     /\ Classify(Pre, last.dest.type).scannable
     /\ Len(Pre.cur.columns) >= 2)
    => /\ last.ret = ColumnCountError(Pre, last.dest.type)
       /\ RowsScanned = 0
       /\ last.out = last.dest

C11_Witness ==
    /\ ValidSelect
    /\ Pre.it.unsafe
    /\ last.dest.type = "Int"
    /\ Len(Pre.cur.columns) = 2
    /\ NextRowOk(Pre.cur)
    /\ last.ret.kind = "ColumnCount"
    /\ last.out = last.dest

(***************************************************************************)
(* C12.  A binder takes its unsafe flag from DefaultUnsafe when it is      *)
(* created; afterwards the flag changes only by a call of Unsafe, and an   *)
(* assignment to DefaultUnsafe leaves the binder as it was.  A binder      *)
(* created while DefaultUnsafe was true never reports a missing field.     *)
(***************************************************************************)
C12_DefaultUnsafeAtCreation ==
    /\ last.op = "new" => iter.unsafe = DefaultUnsafe
    /\ iter.unsafe # Pre.it.unsafe => last.op = "Unsafe"
    /\ last.op = "SetDefaultUnsafe" => iter = Pre.it
    /\ ~iter.unsafe => ~made.unsafe
    /\ made.unsafe => iter.err.kind # "MissingField"

C12_Witness ==
    /\ made.unsafe
    /\ ~DefaultUnsafe
    /\ ValidGet
    /\ last.dest.type = "Person"
    /\ Unmapped("Person", cur.columns) # {}
    /\ Len(cur.columns) = 2
    /\ RowsScanned = 1
    /\ last.ret = Nil
    /\ HoldsRow(last.out.obj, "Person", cur.columns, cur.consumed)

(***************************************************************************)
(* C13.  A Select that scans N >= 1 rows and meets no error leaves exactly *)
(* N elements in dest, the i-th built from the i-th row it scanned, in     *)
(* cursor order, whatever dest held before.  Each element is a zero-valued *)
(* object made for its row: a field no column names is zero, and for a     *)
(* slice of pointers the N pointers are distinct and point at objects made *)
(* during the call.  (A binder that cached the plan of another record type *)
(* in an earlier call maps by that plan; it is left out here.)             *)
(***************************************************************************)
\* element i of the slice a Select stored is the one built from row r
ElementOfRow(d, i, scannable, columns, r) ==
    /\ IF scannable
       THEN d.elems[i] = [New(d.type) EXCEPT !.self = Cell(r, columns[1])]
       ELSE /\ HoldsRow(d.elems[i], d.type, columns, r)
            /\ d.elems[i].self = Zero
    /\ IF d.elemPtr
       THEN /\ d.ptrs[i] < 0 - Pre.st.news
            /\ d.ptrs[i] >= 0 - stats.news
            /\ \A j \in 1..Len(d.ptrs) : j # i => d.ptrs[j] # d.ptrs[i]
       ELSE d.ptrs[i] = 0

C13_SelectElementsInOrder ==
    (/\ ValidSelect
     /\ RowsScanned >= 1
     /\ last.ret = Nil
     /\ PlanIsFor(Pre.it, last.dest.type, cur.columns))
    => /\ Len(last.out.elems) = RowsScanned
       /\ Len(last.out.ptrs) = RowsScanned
       /\ \A i \in 1..RowsScanned :
             ElementOfRow(last.out, i,
                          Classify(Pre, last.dest.type).scannable,
                          cur.columns, Pre.cur.consumed + i)

C13_Witness ==
    /\ ValidSelect
    /\ last.dest.elemPtr
    /\ last.dest.type = "Person"
    /\ cur.columns = <<"b", "a">>
    /\ cur.pages = <<1, 1>>
    /\ RowsScanned = 2
    /\ last.ret = Nil
    /\ Len(last.out.elems) = 2
    /\ last.out.elems[2].a = Cell(2, "a")
    /\ last.out.ptrs[1] # last.out.ptrs[2]

(***************************************************************************)
(* C14.  Manual iteration.  A StructScan given a pointer to a record that  *)
(* the plan fits, on a cursor that hands over its rows, returns true if    *)
(* and only if a row is left; a call that returns true takes exactly one   *)
(* row and writes it into the destination of that call, every slot having  *)
(* been pointed at that destination; a call that returns false takes no    *)
(* row and writes nothing.  So over N rows there are exactly N calls       *)
(* returning true, and no call writes the destination of an earlier one.   *)
(***************************************************************************)
\* every slot is the discard slot or points into the object at address a
SlotsPointAt(values, a) ==
    \A i \in 1..Len(values) : values[i] = Discard \/ values[i][1] = a

C14_ManualIteration ==
    (/\ last.op = "StructScan"
     /\ last.dest.kind = "ptr"
     /\ Pre.it.started \/ Pre.it.unsafe
            \/ Unmapped(last.dest.type, cur.columns) = {}
     /\ PlanIsFor(Pre.it, last.dest.type, cur.columns)
     /\ RestOk(Pre.cur))
    => /\ last.ok <=> Remaining(Pre.cur) > 0
       /\ last.ok =>
            /\ RowsScanned = 1
            /\ HoldsRow(last.out.obj, last.dest.type, cur.columns, cur.consumed)
            /\ SlotsPointAt(iter.values, last.dest.addr)
       /\ ~last.ok => RowsScanned = 0 /\ last.out = last.dest

C14_Witness ==
    /\ last.op = "StructScan"
    /\ Pre.it.started
    /\ Pre.cur.consumed = 1
    /\ SlotsPointAt(Pre.it.values, 1)
    /\ last.dest.addr = 2
    /\ cur.pages = <<1, 1>>
    /\ cur.columns = <<"a", "b">>
    /\ last.ok
    /\ cur.consumed = 2
    /\ last.out.obj.a = Cell(2, "a")
    /\ iter.values = <<<<2, "a">>, <<2, "b">>>>

(***************************************************************************)
(* C15.  A Get given a non-pointer or a nil pointer, and a Select given a  *)
(* non-pointer, a nil pointer or a pointer to something that is no slice,  *)
(* fail with the matching invalid-destination error.  No row is taken, no  *)
(* plan is resolved and the binder is not started by the call, dest is     *)
(* left alone, and the cursor is closed all the same.                      *)
(***************************************************************************)
\* the error of a destination of the wrong shape
ShapeError(op, d) ==
    IF d.kind = "value" THEN "NotPointer"
    ELSE IF d.kind = "nil" THEN "NilPointer"
    ELSE IF op = "Select" /\ d.kind = "ptr" THEN "NotSlice"
    ELSE "nil"

C15_InvalidDestination ==
    (/\ last.op \in {"Get", "Select"}
     /\ ~ValidGet
     /\ ~ValidSelect)
    => /\ last.ret.kind = ShapeError(last.op, last.dest)
       /\ last.ret.kind \in InvalidDestination
       /\ RowsScanned = 0
       /\ iter.started = Pre.it.started
       /\ iter.fields = Pre.it.fields
       /\ stats.resolves = Pre.st.resolves
       /\ last.out = last.dest
       /\ cur.closed
       /\ stats.closeCalls = Pre.st.closeCalls + 1

C15_Witness ==
    /\ last.op = "Select"
    /\ last.dest.kind = "ptr"
    /\ last.ret.kind = "NotSlice"
    /\ ~iter.started
    /\ ~Pre.cur.closed
    /\ cur.closed
    /\ Remaining(cur) = 2

(***************************************************************************)
(* C16.  As claimed: the traversal plan is computed at most once per       *)
(* binder over any sequence of calls, also when the first StructScan fails *)
(* with a missing field and the caller calls again.                        *)
(***************************************************************************)
C16_PlanAtMostOncePerBinder == stats.resolves <= 1

(***************************************************************************)
(* C16, amended.  The plan is computed once by every call that reaches the *)
(* Row Binder while it is not started, and by no call once it is started:  *)
(* a call refused for a missing field leaves the binder unstarted, so the  *)
(* next call computes the plan again; a started binder keeps its plan,     *)
(* also when a later call passes another record type.                      *)
(***************************************************************************)
C16_PlanOncePerUnstartedCall ==
    /\ stats.resolves - Pre.st.resolves =
          IF ViaBinder /\ ~Pre.it.started THEN 1 ELSE 0
    /\ Pre.it.started => iter.started /\ iter.fields = Pre.it.fields
    /\ stats.resolves > Pre.st.resolves /\ ~iter.started
          => iter.err.kind = "MissingField"

C16_Witness ==
    /\ last.op = "StructScan"
    /\ Pre.st.resolves = 1
    /\ ~Pre.it.started
    /\ Pre.it.err.kind = "MissingField"
    /\ stats.resolves = 2
    /\ last.ret.kind = "MissingField"
    /\ ~iter.started

(***************************************************************************)
(* The verdict of the classifier, as computed and as observed on a call of *)
(* an unstarted binder: a misuse is reported, or the plan is resolved      *)
(* (the Row Binder ran), or neither (the value was scanned as one).        *)
(***************************************************************************)
Verdict(c) ==
    IF c.err # Nil THEN "StructOnlyMisuse"
    ELSE IF c.scannable THEN "ScannableSingle" ELSE "RecordMapped"

ObservedVerdict ==
    IF last.scanErr = structOnlyError(last.dest.type) THEN "StructOnlyMisuse"
    ELSE IF stats.resolves > Pre.st.resolves THEN "RecordMapped"
    ELSE "ScannableSingle"

\* the verdict without the structOnly flag
PlainVerdict(t) ==
    IF Implements(t) \/ Kind(t) # "struct" \/ Index(t) = {}
    THEN "ScannableSingle" ELSE "RecordMapped"

\* the table as claimed: structOnly overrides only a verdict that is due to
\* the capability alone
TableAsClaimed(structOnly, t) ==
    IF ~structOnly THEN PlainVerdict(t)
    ELSE IF Kind(t) # "struct" THEN "StructOnlyMisuse"
    ELSE IF Implements(t) /\ Index(t) # {} THEN "RecordMapped"
    ELSE PlainVerdict(t)

\* the table of the code: structOnly makes every record type record-mapped
TableOfCode(structOnly, t) ==
    IF ~structOnly THEN PlainVerdict(t)
    ELSE IF Kind(t) # "struct" THEN "StructOnlyMisuse"
    ELSE "RecordMapped"

(***************************************************************************)
(* C17.  As claimed: Get and Select classify the base type by the table of *)
(* the spec, in which a record type with no mapped fields and no           *)
(* capability stays a single scannable value when structOnly is set.       *)
(***************************************************************************)
C17_ClassifierAsClaimed ==
    (ValidGet \/ ValidSelect)
    => /\ Verdict(Classify(Pre, last.dest.type))
            = TableAsClaimed(Pre.it.structOnly, last.dest.type)
       /\ ~Pre.it.started
            => ObservedVerdict = TableAsClaimed(Pre.it.structOnly, last.dest.type)

(***************************************************************************)
(* C17, amended.  Without structOnly a type is a single scannable value if *)
(* its pointer has the unmarshal capability, or it is no record type, or   *)
(* it has no mapped field, and record-mapped otherwise.  With structOnly   *)
(* every record type is record-mapped, whatever made it scannable (also a  *)
(* record type with no mapped field), and any other type is a misuse.      *)
(***************************************************************************)
C17_ClassifierOfCode ==
    (ValidGet \/ ValidSelect)
    => /\ Verdict(Classify(Pre, last.dest.type))
            = TableOfCode(Pre.it.structOnly, last.dest.type)
       /\ ~Pre.it.started
            => ObservedVerdict = TableOfCode(Pre.it.structOnly, last.dest.type)

C17_Witness ==
    /\ ValidGet
    /\ Pre.it.structOnly
    /\ ~Pre.it.started
    /\ last.dest.type = "Empty"
    /\ Len(cur.columns) = 1
    /\ stats.resolves = Pre.st.resolves + 1
    /\ last.ret.kind = "MissingField"

(***************************************************************************)
(* C18.  A Get or Select whose destination is classified as a single       *)
(* scannable value, on a result whose number of columns is not 1 (zero     *)
(* columns included), fails with the column count error and takes no row.  *)
(***************************************************************************)
C18_ExactlyOneColumn ==
    (/\ ValidGet \/ ValidSelect
     /\ Classify(Pre, last.dest.type).err = Nil
     /\ Classify(Pre, last.dest.type).scannable
     /\ Pre.cur.err = Nil
     /\ Len(Pre.cur.columns) # 1)
    => /\ last.ret.kind = "ColumnCount"
       /\ RowsScanned = 0

(***************************************************************************)
(* C19.  Whatever calls were made on the binder before, a Get returns nil  *)
(* only if it scanned a row itself, and a Get that scans no row and meets  *)
(* no error returns ErrNotFound.                                           *)
(***************************************************************************)
C19_GetNilOnlyIfScanned ==
    last.op = "Get"
    => /\ last.ret = Nil => RowsScanned = 1
       /\ RowsScanned = 0 /\ iter.err = Nil => last.ret = ErrNotFound

(***************************************************************************)
(* C20.  Get and Select classify and validate alike.  The error a Get or   *)
(* Select records before it scans is the first that applies of: invalid    *)
(* destination, structOnly misuse, column count, missing field (on the     *)
(* Row Binder).  And a Get into a T, and a Select into a slice of T or of   *)
(* pointers to T, started from the same state, record the same error,      *)
(* resolve the plan alike, leave the binder in the same state, and reach   *)
(* the first row alike.                                                    *)
(***************************************************************************)
\* the validation error that is due for a call given d from state m
ValidationDue(m, op, d) ==
    IF ShapeError(op, d) # "nil" THEN ShapeError(op, d)
    ELSE IF m.it.structOnly /\ Kind(d.type) # "struct" THEN "StructOnly"
    ELSE IF PlainVerdict(d.type) = "ScannableSingle"
            /\ ~(m.it.structOnly /\ Kind(d.type) = "struct")
    THEN IF Len(m.cur.columns) > 1 THEN "ColumnCount" ELSE "nil"
    ELSE IF ~m.it.started /\ ~m.it.unsafe
            /\ Unmapped(d.type, m.cur.columns) # {}
    THEN "MissingField"
    ELSE "nil"

\* the scan r = [m, ok, dest] of the other driver ended as the last call's
SameScan(r) ==
    /\ r.m.it.err = last.scanErr
    /\ r.m.it.started = iter.started
    /\ r.m.it.fields = iter.fields
    /\ r.m.st.resolves = stats.resolves
    /\ r.m.cur.consumed > Pre.cur.consumed <=> RowsScanned > 0

C20_GetSelectAlike ==
    /\ last.op \in {"Get", "Select"} /\ ValidationDue(Pre, last.op, last.dest) # "nil"
         => /\ last.scanErr.kind = ValidationDue(Pre, last.op, last.dest)
            /\ RowsScanned = 0
    /\ last.op \in {"Get", "Select"} /\ ValidationDue(Pre, last.op, last.dest) = "nil"
         => last.scanErr = Pre.it.err
    /\ ValidGet =>
         \A isPtr \in BOOLEAN :
            SameScan(scanAll(Pre, At(PtrToNilSlice(last.dest.type, isPtr),
                                     last.dest.addr)))
    /\ ValidSelect =>
         SameScan(scanAny(Pre, At(PtrToNew(last.dest.type), last.dest.addr)))
    /\ last.op = "Get" /\ last.dest.kind \in {"value", "nil"} =>
         scanAll(Pre, last.dest).m.it.err = last.scanErr

C20_Witness ==
    /\ ValidSelect
    /\ last.dest.elemPtr
    /\ Pre.it.structOnly
    /\ ~Pre.it.unsafe
    /\ last.dest.type = "Person"
    /\ Len(cur.columns) = 2
    /\ last.ret.kind = "MissingField"
    /\ scanAny(Pre, At(PtrToNew("Person"), 2)).m.it.err = last.ret

(***************************************************************************)
(* C21.  A StructScan on a binder that is not started, given a value or a  *)
(* nil pointer, fails with an invalid-destination error before any plan is *)
(* computed: no row is taken, no plan is resolved, and the binder is left  *)
(* not started, with the plan and the slots it had.                        *)
(***************************************************************************)
C21_StructScanValidatesFirst ==
    (/\ last.op = "StructScan"
     /\ ~Pre.it.started
     /\ last.dest.kind \in {"value", "nil"})
    => /\ ~last.ok
       /\ last.ret.kind \in InvalidDestination
       /\ RowsScanned = 0
       /\ stats.resolves = Pre.st.resolves
       /\ ~iter.started
       /\ iter.fields = Pre.it.fields
       /\ iter.values = Pre.it.values

(***************************************************************************)
(* C22.  The binder moves from not started to started and never back.  A   *)
(* started binder holds a plan and a slot buffer with one entry per column *)
(* of the cursor, and once it is started no call (StructScan, Get, Select, *)
(* Unsafe, StructOnly, Close) changes the plan or the length of the        *)
(* buffer.                                                                 *)
(***************************************************************************)
C22_StartedIsTerminal ==
    /\ Pre.it.started =>
          /\ iter.started
          /\ iter.fields = Pre.it.fields
          /\ Len(iter.values) = Len(Pre.it.values)
    /\ iter.started =>
          /\ Len(iter.fields) = Len(cur.columns)
          /\ Len(iter.values) = Len(cur.columns)
    /\ cur.columns = Pre.cur.columns

C22_Witness ==
    /\ Pre.it.started
    /\ Len(Pre.it.fields) = 2
    /\ last.op = "Select"
    /\ last.dest.type = "Person"
    /\ RowsScanned = 1
    /\ iter.started
    /\ iter.fields = Pre.it.fields
    /\ Len(iter.values) = 2

(***************************************************************************)
(* C23.  A StructScan, Get or Select that fails a check made by Iterx (an  *)
(* invalid destination, a structOnly misuse, the column count, a missing   *)
(* field) takes no row: the cursor is where it was before the call, after  *)
(* a failing StructScan and when Get or Select closes it.                  *)
(***************************************************************************)
CoreErrors == InvalidDestination \cup {"StructOnly", "ColumnCount", "MissingField"}

\* a check of Iterx is due to fail for the last call: by what the call was
\* given, or by the error it recorded
CheckFails ==
    \/ /\ last.op \in {"Get", "Select"}
       /\ \/ ValidationDue(Pre, last.op, last.dest) # "nil"
          \/ last.scanErr # Pre.it.err /\ last.scanErr.kind \in CoreErrors
    \/ /\ last.op = "StructScan"
       /\ \/ last.dest.kind \in {"value", "nil"}
          \/ ~Pre.it.started /\ ~Pre.it.unsafe
                /\ Unmapped(last.dest.type, cur.columns) # {}
          \/ iter.err # Pre.it.err /\ iter.err.kind \in CoreErrors

\* the cursor is at the row it was at before the last call
SamePosition ==
    /\ cur.page = Pre.cur.page
    /\ cur.pos = Pre.cur.pos
    /\ cur.consumed = Pre.cur.consumed
    /\ cur.err = Pre.cur.err

C23_FailedCheckTakesNoRow ==
    CheckFails
    => /\ SamePosition
       /\ ~last.ok
       /\ last.op = "StructScan" => iter.err.kind \in CoreErrors
       /\ last.op # "StructScan" => last.scanErr.kind \in CoreErrors
       /\ last.out = last.dest

C23_Witness ==
    /\ last.op = "StructScan"
    /\ Pre.cur.consumed = 1
    /\ NextRowOk(Pre.cur)
    /\ last.dest.kind = "nil"
    /\ last.ret.kind = "NotStruct"
    /\ cur.consumed = 1
    /\ cur.pos = Pre.cur.pos

(***************************************************************************)
(* C24.  A Select that returns an error after it scanned k >= 1 rows       *)
(* leaves exactly those k rows in dest, in order, in place of what dest    *)
(* held; when the scan of the next row is what failed, the error returned  *)
(* is the cursor's.  A failing Select that scanned no row leaves dest as   *)
(* it was.                                                                 *)
(***************************************************************************)
C24_SelectKeepsScannedRows ==
    (/\ ValidSelect
     /\ last.ret # Nil
     /\ PlanIsFor(Pre.it, last.dest.type, cur.columns))
    => /\ RowsScanned = 0 => last.out = last.dest
       /\ RowsScanned >= 1 =>
            /\ Len(last.out.elems) = RowsScanned
            /\ \A i \in 1..RowsScanned :
                  ElementOfRow(last.out, i,
                               Classify(Pre, last.dest.type).scannable,
                               cur.columns, Pre.cur.consumed + i)
            /\ Pre.it.err = Nil =>
                  /\ cur.failRow = cur.consumed + 1
                  /\ last.ret = Err("DriverScan", "", "", cur.failRow)

C24_Witness ==
    /\ ValidSelect
    /\ Pre.it.err = Nil
    /\ Len(last.dest.elems) = 1
    /\ cur.pages = <<1, 1>>
    /\ cur.failRow = 2
    /\ RowsScanned = 1
    /\ last.ret.kind = "DriverScan"
    /\ Len(last.out.elems) = 1
    /\ HoldsRow(last.out.elems[1], "Person", cur.columns, 1)
    /\ last.out # last.dest

(***************************************************************************)
(* C25.  The error recorded in the binder is never cleared.  A call made   *)
(* while an error is recorded leaves an error recorded, and if it is a     *)
(* Close, a Get or a Select it returns an error; from every state with an  *)
(* error recorded the next Close returns an error, and after a StructScan  *)
(* that returned true with an error still recorded, so do the next Get and *)
(* the next Select, whatever they are given.                               *)
(***************************************************************************)
C25_ErrorNeverCleared ==
    /\ Pre.it.err # Nil =>
          /\ iter.err # Nil
          /\ last.op \in {"Close", "Get", "Select"} => last.ret # Nil
    /\ iter.err # Nil => Close(Machine).err # Nil
    /\ last.op = "StructScan" /\ last.ok /\ iter.err # Nil =>
          /\ \A d \in Passed(GetDests) : Get(Machine, d).err # Nil
          /\ \A d \in Passed(SelectDests) : Select(Machine, d).err # Nil

C25_Witness ==
    /\ last.op = "StructScan"
    /\ Pre.it.err # Nil
    /\ last.ok
    /\ RowsScanned = 1
    /\ iter.err = Pre.it.err
    /\ cur.err = Nil
    /\ Close(Machine).err = iter.err

(***************************************************************************)
(* C26.  Two threads in StructScan on one binder are not kept apart.  The  *)
(* row a call takes is written through the slots of the binder as they are *)
(* when the call scans, into whatever object each slot points at then, be  *)
(* it the destination of this call or of the other; and neither call is    *)
(* refused or held up by the other: when both have returned and no error   *)
(* is recorded, each row taken was taken by a call that returned true, and *)
(* both returned true if the cursor had two rows.  The witness is the      *)
(* interleaving in which the second call re-points the slots between the   *)
(* re-pointing and the scan of the first: the row of the first call is in  *)
(* the destination of the second.                                          *)
(***************************************************************************)
\* the call of thread t wrote its row through the slots the binder had
WroteThroughSharedSlots(t) ==
    \A a \in Threads : \A f \in DOMAIN heap[a] :
        thr[t].after[a][f] =
            IF \E i \in 1..Len(thr[t].via) : thr[t].via[i] = <<a, f>>
            THEN Cell(thr[t].row, f)
            ELSE thr[t].before[a][f]

C26_SharedSlotsUnguarded ==
    /\ \A t \in Threads :
          thr[t].pc = "done" /\ thr[t].ok
          => /\ WroteThroughSharedSlots(t)
             /\ thr[t].row \in 1..cur.consumed
    /\ (/\ \A t \in Threads : thr[t].pc = "done"
        /\ iter.err = Nil
        /\ cur.err = Nil)
       => /\ cur.consumed = Cardinality({t \in Threads : thr[t].ok})
          /\ TotalRows(cur) >= 2 => \A t \in Threads : thr[t].ok

C26_Witness ==
    /\ cur.columns = <<"a", "b">>
    /\ thr[1].pc = "done"
    /\ thr[1].ok
    /\ thr[1].row = 1
    /\ thr[2].pc = "scan"
    /\ heap[2].a = Cell(1, "a")
    /\ heap[2].b = Cell(1, "b")
    /\ heap[1] = New(thr[1].type)
====
